---- MODULE Spec2Model ----
(***************************************************************************)
(* Model of the trust-certification-toolkit:                               *)
(*   - certification_lifecycle.py  : CertificationLifecycleManager         *)
(*   - aumos_certify/runner.py     : ConformanceRunner.run                 *)
(*   - aumos_certify/protocols/*.py: the check catalog                     *)
(*   - aumos_certify/scorer.py     : CertificationScorer.score             *)
(* Three specifications share the module: SpecLifecycle, SpecRunner and    *)
(* SpecScorer.  Each one drives its own component and leaves the variables *)
(* of the other two untouched.                                             *)
(***************************************************************************)
EXTENDS Integers, Sequences, FiniteSets, TLC

VARIABLES
    policy,         \* CertificationLifecycleManager._policy
    records,        \* CertificationLifecycleManager._records : record_id -> record
    events,         \* CertificationLifecycleManager._events  : record_id -> list of events
    clock,          \* the wall clock read by _now() / datetime.now(), in days
    lastCall,       \* the last public lifecycle call, its reference time and how it ended
    pc,             \* where ConformanceRunner.run stands
    request,        \* the protocols argument of run
    impl,           \* the adapter under test: how its invoke behaves
    trace,          \* the calls the adapter has received, in order
    pidx,           \* index in requested_protocols of the protocol being checked
    checks,         \* the checks list run_checks has built so far
    protocol_results, \* run's protocol_results dict
    run_meta,       \* run_id and started_at of the run
    run_out,        \* what run returned or raised
    run_result,     \* the RunResult handed to CertificationScorer.score
    cert            \* the CertificationResult score returned

lifecycleVars == <<policy, records, events, lastCall>>

runnerVars == <<pc, request, impl, trace, pidx, checks, protocol_results,
                run_meta, run_out>>

scorerVars == <<run_result, cert>>

vars == <<policy, records, events, clock, lastCall,
          pc, request, impl, trace, pidx, checks, protocol_results,
          run_meta, run_out, run_result, cert>>

\* Python's None, for strings and for datetimes
None == "None"
NoDate == -1

(***************************************************************************)
(* Bounds of the lifecycle model                                           *)
(***************************************************************************)
MaxRecords == 2        \* records issued in one behaviour
MaxClock == 2          \* last day the wall clock reaches
MaxEvents == 4         \* lifecycle events recorded in one behaviour
MaxRenewalsBound == 1  \* largest policy.max_renewals tried
MaxValidity == 1       \* largest policy.validity_period_days tried
MaxGrace == 1          \* largest policy.grace_period_days tried

AgentIds == {"agent-001"}
CertLevels == {"silver"}
Hashes == {"h1", "h2"}          \* report hashes given to renew
IssueHashes == {"h1"}           \* report hashes given to issue
Reasons == {"r1", "r2"}         \* reasons given to revoke
SuspendReasons == {"r1"}        \* reasons given to suspend

\* class CertificationState
ACTIVE == "active"
EXPIRED == "expired"
REVOKED == "revoked"
SUSPENDED == "suspended"
PENDING_RENEWAL == "pending_renewal"
CertificationState == {ACTIVE, EXPIRED, REVOKED, SUSPENDED, PENDING_RENEWAL}

\* class RenewalPolicy, with its field constraints (gt=0, ge=0, ge=0)
RenewalPolicy ==
    [validity_period_days : 1..MaxValidity,
     grace_period_days : 0..MaxGrace,
     max_renewals : 0..MaxRenewalsBound,
     require_reassessment : BOOLEAN]

\* record ids a caller may pass; an id not issued yet is an unknown record_id
CallIds == 1..MaxRecords

Last(q) == q[Len(q)]

\* total number of events in the log
RECURSIVE SumLen(_, _)
SumLen(f, S) ==
    IF S = {} THEN 0
    ELSE LET x == CHOOSE y \in S : TRUE
         IN Len(f[x]) + SumLen(f, S \ {x})

EventCount == SumLen(events, DOMAIN events)

\* _now(): the current time
Now == clock

\* Store writing the snapshot under every record id
Store_OverwritesAll(recs, record) ==
    [r \in (DOMAIN recs) \cup {record.record_id} |-> record]

\* _store(record): replace the snapshot kept under record.record_id
Store(recs, record) ==
    [r \in (DOMAIN recs) \cup {record.record_id} |->
        IF r = record.record_id THEN record ELSE recs[r]]

\* NewEvent keeping only the newest event of the record
NewEvent_Overwrite(evs, record_id, event_type, details, occurred_at) ==
    LET old == IF record_id \in DOMAIN evs THEN evs[record_id] ELSE <<>>
        event == [event_id |-> <<record_id, Len(old) + 1>>,
                  record_id |-> record_id,
                  event_type |-> event_type,
                  occurred_at |-> occurred_at,
                  details |-> details]
    IN [r \in (DOMAIN evs) \cup {record_id} |->
            IF r = record_id THEN <<event>> ELSE evs[r]]

\* _new_event(...): append one LifecycleEvent to the list of record_id.
\* event_id is a uuid4: a value no other event has, here the record and the
\* position of the event in the record's list
NewEvent(evs, record_id, event_type, details, occurred_at) ==
    LET old == IF record_id \in DOMAIN evs THEN evs[record_id] ELSE <<>>
        event == [event_id |-> <<record_id, Len(old) + 1>>,
                  record_id |-> record_id,
                  event_type |-> event_type,
                  occurred_at |-> occurred_at,
                  details |-> details]
    IN [r \in (DOMAIN evs) \cup {record_id} |->
            IF r = record_id THEN Append(old, event) ELSE evs[r]]

\* how a call ends: a raise leaves the manager as the raising statement found it;
\* reference is the time check_expirations compared the expiry dates with
\* (NoDate for the other calls)
Raised(op, record_id, exc, why) ==
    [op |-> op, record_id |-> record_id, outcome |-> exc, error |-> why,
     records |-> records, events |-> events, result |-> <<>>,
     reference |-> NoDate]

Returned(op, record_id, recs, evs, result) ==
    [op |-> op, record_id |-> record_id, outcome |-> "ok", error |-> None,
     records |-> recs, events |-> evs, result |-> result,
     reference |-> NoDate]

(***************************************************************************)
(* issue                                                                   *)
(***************************************************************************)
\* record_id is a uuid4: an id no other record has, here the next number
issue(agent_id, certification_level, assessment_report_hash) ==
    LET now == Now
        record_id == Cardinality(DOMAIN records) + 1
        expires_at == now + policy.validity_period_days
        record == [record_id |-> record_id,
                   agent_id |-> agent_id,
                   certification_level |-> certification_level,
                   issued_at |-> now,
                   expires_at |-> expires_at,
                   state |-> ACTIVE,
                   renewal_count |-> 0,
                   revocation_reason |-> None,
                   assessment_report_hash |-> assessment_report_hash]
        recs == Store(records, record)
        evs == NewEvent(events, record_id, "issued",
                        <<certification_level, agent_id, expires_at>>, now)
    IN Returned("issue", record_id, recs, evs, <<record>>)

(***************************************************************************)
(* renew                                                                   *)
(***************************************************************************)
\* RenewRejection with the renewal limit off by one
RenewRejection_OffByOne(record, now, new_assessment_report_hash) ==
    IF record.state = REVOKED THEN "revoked"
    ELSE IF record.state = SUSPENDED THEN "suspended"
    ELSE IF record.renewal_count > policy.max_renewals THEN "max_renewals"
    ELSE IF record.state = EXPIRED
            /\ now > record.expires_at + policy.grace_period_days THEN "grace_elapsed"
    ELSE IF policy.require_reassessment /\ new_assessment_report_hash = None
         THEN "hash_required"
    ELSE None

\* the checks of renew on a record that exists, in the order of the code;
\* the result is the reason of the ValueError, or None when renew goes ahead
RenewRejection(record, now, new_assessment_report_hash) ==
    IF record.state = REVOKED THEN "revoked"
    ELSE IF record.state = SUSPENDED THEN "suspended"
    ELSE IF record.renewal_count >= policy.max_renewals THEN "max_renewals"
    ELSE IF record.state = EXPIRED
            /\ now > record.expires_at + policy.grace_period_days THEN "grace_elapsed"
    ELSE IF policy.require_reassessment /\ new_assessment_report_hash = None
         THEN "hash_required"
    ELSE None

\* RenewReportHash storing the argument even when none was given
RenewReportHash_AlwaysNew(record, new_assessment_report_hash) ==
    new_assessment_report_hash

\* the report hash renew stores
RenewReportHash(record, new_assessment_report_hash) ==
    IF policy.require_reassessment THEN new_assessment_report_hash
    ELSE IF new_assessment_report_hash # None THEN new_assessment_report_hash
    ELSE record.assessment_report_hash

\* RenewedRecord extending the old expiry instead of starting from now
RenewedRecord_FromOldExpiry(record, now, report_hash) ==
    [record EXCEPT !.expires_at = record.expires_at + policy.validity_period_days,
                   !.state = ACTIVE,
                   !.renewal_count = record.renewal_count + 1,
                   !.assessment_report_hash = report_hash]

\* record.model_copy(update={...}) of renew
RenewedRecord(record, now, report_hash) ==
    [record EXCEPT !.expires_at = now + policy.validity_period_days,
                   !.state = ACTIVE,
                   !.renewal_count = record.renewal_count + 1,
                   !.assessment_report_hash = report_hash]

\* renew storing the renewed record before it checks the report hash
renew_StoreBeforeHashCheck(record_id, new_assessment_report_hash) ==
    IF record_id \notin DOMAIN records
    THEN Raised("renew", record_id, "KeyError", "not_found")
    ELSE LET record == records[record_id]
             now == Now
             why == RenewRejection(record, now, new_assessment_report_hash)
         IN IF why = "hash_required"
            THEN [op |-> "renew", record_id |-> record_id,
                  outcome |-> "ValueError", error |-> why,
                  records |-> Store(records,
                                    RenewedRecord(record, now,
                                                  record.assessment_report_hash)),
                  events |-> events, result |-> <<>>, reference |-> NoDate]
            ELSE IF why # None
            THEN Raised("renew", record_id, "ValueError", why)
            ELSE LET report_hash == RenewReportHash(record, new_assessment_report_hash)
                     renewed_record == RenewedRecord(record, now, report_hash)
                     recs == Store(records, renewed_record)
                     evs == NewEvent(events, record_id, "renewed",
                                     <<renewed_record.renewal_count,
                                       renewed_record.expires_at>>, now)
                 IN Returned("renew", record_id, recs, evs, <<renewed_record>>)

renew(record_id, new_assessment_report_hash) ==
    IF record_id \notin DOMAIN records
    THEN Raised("renew", record_id, "KeyError", "not_found")
    ELSE LET record == records[record_id]
             now == Now
             why == RenewRejection(record, now, new_assessment_report_hash)
         IN IF why # None
            THEN Raised("renew", record_id, "ValueError", why)
            ELSE LET report_hash == RenewReportHash(record, new_assessment_report_hash)
                     renewed_record == RenewedRecord(record, now, report_hash)
                     recs == Store(records, renewed_record)
                     evs == NewEvent(events, record_id, "renewed",
                                     <<renewed_record.renewal_count,
                                       renewed_record.expires_at>>, now)
                 IN Returned("renew", record_id, recs, evs, <<renewed_record>>)

(***************************************************************************)
(* revoke                                                                  *)
(***************************************************************************)
\* RevokeRejection without the check for an already revoked record
RevokeRejection_Never(record) == None

RevokeRejection(record) ==
    IF record.state = REVOKED THEN "already_revoked" ELSE None

\* RevokedRecord changing the state only
RevokedRecord_NoReason(record, reason) ==
    [record EXCEPT !.state = REVOKED]

\* record.model_copy(update={...}) of revoke
RevokedRecord(record, reason) ==
    [record EXCEPT !.state = REVOKED, !.revocation_reason = reason]

revoke(record_id, reason) ==
    IF record_id \notin DOMAIN records
    THEN Raised("revoke", record_id, "KeyError", "not_found")
    ELSE LET record == records[record_id]
             why == RevokeRejection(record)
         IN IF why # None
            THEN Raised("revoke", record_id, "ValueError", why)
            ELSE LET now == Now
                     revoked_record == RevokedRecord(record, reason)
                     recs == Store(records, revoked_record)
                     evs == NewEvent(events, record_id, "revoked",
                                     <<reason>>, now)
                 IN Returned("revoke", record_id, recs, evs, <<revoked_record>>)

(***************************************************************************)
(* suspend and reinstate                                                   *)
(***************************************************************************)
SuspendRejection(record) ==
    IF record.state = SUSPENDED THEN "already_suspended"
    ELSE IF record.state = REVOKED THEN "revoked"
    ELSE None

SuspendedRecord(record) == [record EXCEPT !.state = SUSPENDED]

suspend(record_id, reason) ==
    IF record_id \notin DOMAIN records
    THEN Raised("suspend", record_id, "KeyError", "not_found")
    ELSE LET record == records[record_id]
             why == SuspendRejection(record)
         IN IF why # None
            THEN Raised("suspend", record_id, "ValueError", why)
            ELSE LET now == Now
                     suspended_record == SuspendedRecord(record)
                     recs == Store(records, suspended_record)
                     evs == NewEvent(events, record_id, "suspended",
                                     <<reason>>, now)
                 IN Returned("suspend", record_id, recs, evs, <<suspended_record>>)

\* ReinstateRejection that also lets an EXPIRED record through
ReinstateRejection_AllowsExpired(record) ==
    IF record.state \notin {SUSPENDED, EXPIRED} THEN "not_suspended" ELSE None

ReinstateRejection(record) ==
    IF record.state # SUSPENDED THEN "not_suspended" ELSE None

ReinstatedRecord(record) == [record EXCEPT !.state = ACTIVE]

reinstate(record_id) ==
    IF record_id \notin DOMAIN records
    THEN Raised("reinstate", record_id, "KeyError", "not_found")
    ELSE LET record == records[record_id]
             why == ReinstateRejection(record)
         IN IF why # None
            THEN Raised("reinstate", record_id, "ValueError", why)
            ELSE LET now == Now
                     reinstated_record == ReinstatedRecord(record)
                     recs == Store(records, reinstated_record)
                     evs == NewEvent(events, record_id, "reinstated",
                                     <<>>, now)
                 IN Returned("reinstate", record_id, recs, evs, <<reinstated_record>>)

(***************************************************************************)
(* check_expirations                                                       *)
(***************************************************************************)
\* IsNewlyExpired that also takes a record expiring at the reference time itself
IsNewlyExpired_Inclusive(record, now) ==
    record.state = ACTIVE /\ record.expires_at <= now

\* the test of the sweep on one record
IsNewlyExpired(record, now) ==
    record.state = ACTIVE /\ record.expires_at < now

\* ExpiredRecord that forgets to update the state
ExpiredRecord_StaysActive(record) == record

\* record.model_copy(update={"state": EXPIRED})
ExpiredRecord(record) == [record EXCEPT !.state = EXPIRED]

\* the loop over list(self._records.items()): ids are visited in the order
\* they were issued; st carries the registry, the event log and the list of
\* newly expired records
RECURSIVE SweepFrom(_, _, _)
SweepFrom(i, now, st) ==
    IF i > Cardinality(DOMAIN records) THEN st
    ELSE LET record == records[i]
         IN IF IsNewlyExpired(record, now)
            THEN LET expired_record == ExpiredRecord(record)
                 IN SweepFrom(i + 1, now,
                        [records |-> Store(st.records, expired_record),
                         events |-> NewEvent(st.events, i, "expired",
                                             <<record.expires_at>>, now),
                         newly_expired |-> Append(st.newly_expired, expired_record)])
            ELSE SweepFrom(i + 1, now, st)

check_expirations(reference_date) ==
    LET now == IF reference_date # NoDate THEN reference_date ELSE Now
        st == SweepFrom(1, now, [records |-> records, events |-> events,
                                 newly_expired |-> <<>>])
    IN [Returned("check_expirations", 0, st.records, st.events, st.newly_expired)
            EXCEPT !.reference = now]

\* get_record(record_id): the current snapshot, or None
get_record(record_id) ==
    IF record_id \in DOMAIN records THEN records[record_id] ELSE None

\* sorted(events, key=lambda e: e.occurred_at): a stable sort, an event
\* goes behind the events that are not later than it
RECURSIVE InsertByOccurredAt(_, _)
InsertByOccurredAt(sorted, e) ==
    IF sorted = <<>> THEN <<e>>
    ELSE IF Last(sorted).occurred_at <= e.occurred_at THEN Append(sorted, e)
    ELSE Append(InsertByOccurredAt(SubSeq(sorted, 1, Len(sorted) - 1), e),
                Last(sorted))

RECURSIVE SortedByOccurredAt(_)
SortedByOccurredAt(evs) ==
    IF evs = <<>> THEN <<>>
    ELSE InsertByOccurredAt(SortedByOccurredAt(SubSeq(evs, 1, Len(evs) - 1)),
                            Last(evs))

\* get_events(record_id): the events of the record, ordered by occurred_at
get_events(record_id) ==
    SortedByOccurredAt(IF record_id \in DOMAIN events
                       THEN events[record_id] ELSE <<>>)

\* json.loads(event.model_dump_json()): the datetime becomes its ISO 8601
\* text, the other fields keep their values
EventJson(event) ==
    [event_id |-> event.event_id,
     record_id |-> event.record_id,
     event_type |-> event.event_type,
     occurred_at |-> <<"iso8601", event.occurred_at>>,
     details |-> event.details]

\* export_events_json(record_id): the JSON array of get_events(record_id)
export_events_json(record_id) ==
    LET evs == get_events(record_id)
    IN [i \in 1..Len(evs) |-> EventJson(evs[i])]

(***************************************************************************)
(* The lifecycle manager as a state machine: one action per public call    *)
(***************************************************************************)
\* a call takes effect: the manager holds what the call left, lastCall
\* tells how it ended, and whether it repeated the sweep made by the call
\* before it, with the same reference time
Apply(call) ==
    /\ records' = call.records
    /\ events' = call.events
    /\ lastCall' = [op |-> call.op, record_id |-> call.record_id,
                    outcome |-> call.outcome, error |-> call.error,
                    result |-> call.result, reference |-> call.reference,
                    repeat |-> /\ call.op = "check_expirations"
                               /\ lastCall.op = "check_expirations"
                               /\ lastCall.reference = call.reference]
    /\ UNCHANGED <<policy, clock>>
    /\ UNCHANGED runnerVars
    /\ UNCHANGED scorerVars

NoCall == [op |-> "none", record_id |-> 0, outcome |-> "ok", error |-> None,
           result |-> <<>>, reference |-> NoDate, repeat |-> FALSE]

\* the runner before run is called
RunnerIdle ==
    /\ pc = "idle"
    /\ request = [given |-> FALSE, ids |-> <<>>]
    /\ impl = [base |-> "satisfying", faults |-> 0]
    /\ trace = <<>>
    /\ pidx = 0
    /\ checks = <<>>
    /\ protocol_results = <<>>
    /\ run_meta = [run_id |-> 0, started_at |-> 0]
    /\ run_out = [kind |-> "none"]

\* the scorer before any RunResult is built
ScorerIdle ==
    /\ run_result = [implementation_name |-> "impl", run_id |-> 0,
                     started_at |-> 0, completed_at |-> 0,
                     protocols_run |-> <<>>, protocol_results |-> <<>>]
    /\ cert = [scored |-> FALSE]

InitLifecycle ==
    /\ policy \in RenewalPolicy
    /\ records = <<>>
    /\ events = <<>>
    /\ clock = 0
    /\ lastCall = NoCall
    /\ RunnerIdle
    /\ ScorerIdle

\* a call that would record an event is only made while the log has room
HasRoom(call) == call.events = events \/ SumLen(call.events, DOMAIN call.events) <= MaxEvents

Issue ==
    /\ Cardinality(DOMAIN records) < MaxRecords
    /\ \E a \in AgentIds, l \in CertLevels, h \in IssueHashes :
          /\ HasRoom(issue(a, l, h))
          /\ Apply(issue(a, l, h))

Renew ==
    \E rid \in CallIds, h \in Hashes \cup {None} :
        /\ HasRoom(renew(rid, h))
        /\ Apply(renew(rid, h))

Revoke ==
    \E rid \in CallIds, reason \in Reasons :
        /\ HasRoom(revoke(rid, reason))
        /\ Apply(revoke(rid, reason))

Suspend ==
    \E rid \in CallIds, reason \in SuspendReasons :
        /\ HasRoom(suspend(rid, reason))
        /\ Apply(suspend(rid, reason))

Reinstate ==
    \E rid \in CallIds :
        /\ HasRoom(reinstate(rid))
        /\ Apply(reinstate(rid))

CheckExpirations ==
    \E ref \in NoDate..MaxClock :
        /\ HasRoom(check_expirations(ref))
        /\ Apply(check_expirations(ref))

\* time passes between calls
Tick ==
    /\ clock < MaxClock
    /\ clock' = clock + 1
    /\ UNCHANGED <<policy, records, events, lastCall>>
    /\ UNCHANGED runnerVars
    /\ UNCHANGED scorerVars

NextLifecycle ==
    \/ Issue
    \/ Renew
    \/ Revoke
    \/ Suspend
    \/ Reinstate
    \/ CheckExpirations
    \/ Tick

SpecLifecycle == InitLifecycle /\ [][NextLifecycle]_vars

(***************************************************************************)
(* The check catalog: aumos_certify/protocols                              *)
(***************************************************************************)
\* class ConformanceStatus
PASS == "pass"
FAIL == "fail"
SKIP == "skip"
ERROR == "error"
ConformanceStatus == {PASS, FAIL, SKIP, ERROR}

\* What one adapter.invoke can do as seen by a check: return a mapping the
\* check's judgement accepts, return anything else (caught by the judgement
\* or by the check's except Exception), raise NotImplementedError, raise
\* another Exception, or raise a BaseException that is no Exception
\* (KeyboardInterrupt, SystemExit, asyncio.CancelledError).
InvokeOutcomes ==
    {"satisfying", "unsatisfying", "NotImplementedError", "Exception", "BaseException"}

\* One entry per check function, in the order run_checks calls them:
\* the operation it invokes, the check_id and conformance_level of its
\* CheckResult, the status it returns for a response its judgement does not
\* accept, and the status of its except NotImplementedError branch.
Check(check_id, operation, conformance_level, unsatisfied, not_implemented) ==
    [check_id |-> check_id, operation |-> operation,
     conformance_level |-> conformance_level,
     unsatisfied |-> unsatisfied, not_implemented |-> not_implemented]

atp_checks ==
    << Check("ATP-MUST-001", "set_trust_level", "MUST", FAIL, FAIL),
       Check("ATP-MUST-002", "check_trust_requirement", "MUST", FAIL, FAIL),
       Check("ATP-MUST-003", "change_trust_level", "MUST", FAIL, FAIL),
       Check("ATP-MUST-004", "check_trust_requirement", "MUST", FAIL, FAIL),
       Check("ATP-SHOULD-001", "get_recent_audit_entries", "SHOULD", FAIL, SKIP) >>

aip_checks ==
    << Check("AIP-MUST-001", "register_identity", "MUST", FAIL, FAIL),
       Check("AIP-MUST-002", "lookup_identity", "MUST", FAIL, FAIL),
       Check("AIP-MUST-003", "validate_credential", "MUST", FAIL, FAIL),
       Check("AIP-MUST-004", "revoke_identity", "MUST", FAIL, FAIL) >>

aeap_checks ==
    << Check("AEAP-MUST-001", "check_spend_allowed", "MUST", FAIL, FAIL),
       Check("AEAP-MUST-002", "record_spend", "MUST", FAIL, FAIL),
       Check("AEAP-MUST-003", "get_budget_status", "MUST", FAIL, FAIL),
       Check("AEAP-MUST-004", "check_spend_allowed", "MUST", FAIL, FAIL) >>

amgp_checks ==
    << Check("AMGP-MUST-001", "write_memory_record", "MUST", FAIL, FAIL),
       Check("AMGP-MUST-002", "query_memory_records", "MUST", FAIL, FAIL),
       Check("AMGP-MUST-003", "delete_memory_record", "MUST", FAIL, FAIL),
       Check("AMGP-SHOULD-001", "write_memory_record", "SHOULD", SKIP, SKIP) >>

aoap_checks ==
    << Check("AOAP-MUST-001", "append_audit_entry", "MUST", FAIL, FAIL),
       Check("AOAP-MUST-002", "export_audit_log", "MUST", FAIL, FAIL),
       Check("AOAP-SHOULD-001", "verify_audit_chain", "SHOULD", SKIP, SKIP),
       Check("AOAP-MUST-003", "query_audit_entries", "MUST", FAIL, FAIL) >>

cross_protocol_checks ==
    << Check("CROSS-MUST-001", "check_action_allowed", "MUST", SKIP, SKIP),
       Check("CROSS-MUST-002", "assign_trust_with_identity_check", "MUST", SKIP, SKIP),
       Check("CROSS-SHOULD-001", "get_denial_audit_entries", "SHOULD", SKIP, SKIP) >>

\* _PROTOCOL_REGISTRY, a dict: its keys in insertion order, and its values
RegisteredProtocols == <<"atp", "aip", "aeap", "amgp", "aoap", "cross_protocol">>

SeqToSet(q) == {q[i] : i \in 1..Len(q)}

PROTOCOL_REGISTRY ==
    [p \in SeqToSet(RegisteredProtocols) |->
        CASE p = "atp" -> atp_checks
          [] p = "aip" -> aip_checks
          [] p = "aeap" -> aeap_checks
          [] p = "amgp" -> amgp_checks
          [] p = "aoap" -> aoap_checks
          [] p = "cross_protocol" -> cross_protocol_checks]

\* the status a check function returns for what adapter.invoke did
\* (try / except NotImplementedError / except Exception)
CheckStatus(check, outcome) ==
    CASE outcome = "satisfying" -> PASS
      [] outcome = "unsatisfying" -> check.unsatisfied
      [] outcome = "NotImplementedError" -> check.not_implemented
      [] outcome = "Exception" -> ERROR

\* the CheckResult a check function returns
CheckResultOf(check, outcome) ==
    [check_id |-> check.check_id,
     status |-> CheckStatus(check, outcome),
     message |-> CASE outcome = "satisfying" -> None
                   [] outcome = "unsatisfying" -> "unexpected response"
                   [] outcome = "NotImplementedError" -> "not implemented"
                   [] outcome = "Exception" -> "Unexpected error",
     conformance_level |-> check.conformance_level]

\* sum(1 for c in checks if c.status == status)
CountStatus(cs, status) == Cardinality({i \in 1..Len(cs) : cs[i].status = status})

\* ProtocolResultOf counting the skipped checks among the failed ones too
ProtocolResultOf_SkipsAsFailed(protocol, cs) ==
    [protocol |-> protocol,
     checks |-> cs,
     passed |-> CountStatus(cs, PASS),
     failed |-> CountStatus(cs, FAIL) + CountStatus(cs, SKIP),
     skipped |-> CountStatus(cs, SKIP),
     errors |-> CountStatus(cs, ERROR)]

\* the ProtocolResult run_checks returns
ProtocolResultOf(protocol, cs) ==
    [protocol |-> protocol,
     checks |-> cs,
     passed |-> CountStatus(cs, PASS),
     failed |-> CountStatus(cs, FAIL),
     skipped |-> CountStatus(cs, SKIP),
     errors |-> CountStatus(cs, ERROR)]

(***************************************************************************)
(* ConformanceRunner.run, one step per call on the adapter                 *)
(***************************************************************************)
MaxRequestLen == 2     \* longest protocols list given to run
MaxFaults == 1         \* invokes of one run that depart from the adapter's usual behaviour
MaxRunClock == 1       \* last tick of the wall clock during a run

\* the ids a caller may put in protocols: the registered ones and two that are not
RequestIds == SeqToSet(RegisteredProtocols) \cup {"asp", "alcp"}

RECURSIVE SeqsUpTo(_, _)
SeqsUpTo(S, n) ==
    IF n = 0 THEN {<<>>}
    ELSE LET shorter == SeqsUpTo(S, n - 1)
         IN shorter \cup {Append(q, x) : q \in shorter, x \in S}

\* the protocols of a perfect run: the five with a check module that the
\* levels require
PerfectRunProtocols == <<"atp", "aip", "aeap", "amgp", "aoap">>

\* protocols is None, or a list
Requests ==
    {[given |-> FALSE, ids |-> <<>>]}
        \cup {[given |-> TRUE, ids |-> q] : q \in SeqsUpTo(RequestIds, MaxRequestLen)}
        \cup {[given |-> TRUE, ids |-> PerfectRunProtocols]}

\* how the adapter usually answers
AdapterBases == {"satisfying", "unsatisfying", "NotImplementedError", "Exception"}

\* RequestedProtocols running the registered protocols in alphabetical order
RequestedProtocols_Sorted(req) ==
    IF req.given THEN req.ids
    ELSE <<"aeap", "aip", "amgp", "aoap", "atp", "cross_protocol">>

\* requested_protocols = protocols if protocols is not None else list(_PROTOCOL_REGISTRY)
RequestedProtocols(req) == IF req.given THEN req.ids ELSE RegisteredProtocols

\* Unknown stopping at the first unregistered id
Unknown_FirstOnly(requested) ==
    LET all == SelectSeq(requested, LAMBDA p : p \notin DOMAIN PROTOCOL_REGISTRY)
    IN IF all = <<>> THEN <<>> ELSE <<all[1]>>

\* unknown = [p for p in requested_protocols if p not in _PROTOCOL_REGISTRY]
Unknown(requested) ==
    SelectSeq(requested, LAMBDA p : p \notin DOMAIN PROTOCOL_REGISTRY)

\* protocol_results[protocol_id] = result
SetResult(results, protocol_id, result) ==
    [p \in (DOMAIN results) \cup {protocol_id} |->
        IF p = protocol_id THEN result ELSE results[p]]

\* one call received by the adapter, and how the adapter answered it
Call(call, protocol, operation, outcome) ==
    [call |-> call, protocol |-> protocol, operation |-> operation,
     outcome |-> outcome]

\* the RunResult run returns
RunResultOf(requested, results, completed_at) ==
    [implementation_name |-> "impl",
     run_id |-> run_meta.run_id,
     started_at |-> run_meta.started_at,
     completed_at |-> completed_at,
     protocols_run |-> requested,
     protocol_results |-> results]

requested == RequestedProtocols(request)

\* run(protocols) up to the call of setup: the request is validated, run_id
\* and started_at are taken
RunStart ==
    /\ pc = "idle"
    /\ \E req \in Requests, base \in AdapterBases :
          /\ request' = req
          /\ impl' = [base |-> base, faults |-> 0]
          /\ IF Unknown(RequestedProtocols(req)) # <<>>
             THEN /\ pc' = "raised"
                  /\ run_out' = [kind |-> "raised", error |-> "ValueError",
                                 unknown |-> Unknown(RequestedProtocols(req))]
                  /\ UNCHANGED run_meta
             ELSE /\ pc' = "setup"
                  /\ run_meta' = [run_id |-> 1, started_at |-> clock]
                  /\ UNCHANGED run_out
    /\ UNCHANGED <<trace, pidx, checks, protocol_results, clock>>
    /\ UNCHANGED lifecycleVars
    /\ UNCHANGED scorerVars

\* LoopPc leaving the for loop after the first protocol
LoopPc_StopsAfterFirst(i, req) ==
    IF i > 1 \/ i > Len(RequestedProtocols(req)) THEN "teardown" ELSE "loop"

\* the for loop is over when every requested protocol has its result
LoopPc(i, req) == IF i > Len(RequestedProtocols(req)) THEN "teardown" ELSE "loop"

\* await self._implementation.setup()
Setup ==
    /\ pc = "setup"
    /\ \/ /\ trace' = Append(trace, Call("setup", None, None, "returned"))
          /\ pidx' = 1
          /\ pc' = LoopPc(1, request)
          /\ UNCHANGED run_out
       \/ /\ trace' = Append(trace, Call("setup", None, None, "raised"))
          /\ pc' = "raised"
          /\ run_out' = [kind |-> "raised", error |-> "setup", unknown |-> <<>>]
          /\ UNCHANGED pidx
    /\ UNCHANGED <<request, impl, checks, protocol_results, run_meta, clock>>
    /\ UNCHANGED lifecycleVars
    /\ UNCHANGED scorerVars

\* AfterEscape without the finally clause: the exception leaves run at once
AfterEscape_NoFinally == "raised"

\* try: ... finally: an exception that leaves the for loop goes through the
\* finally clause, as the normal end of the loop does
AfterEscape == "teardown"

\* one check function of check_fn(self._implementation): one adapter.invoke.
\* After the last check of the protocol, run_checks returns its
\* ProtocolResult and run stores it.
Invoke ==
    /\ pc = "loop"
    /\ LET protocol_id == requested[pidx]
           check_fn == PROTOCOL_REGISTRY[protocol_id]
           check == check_fn[Len(checks) + 1]
       IN \E outcome \in InvokeOutcomes :
                /\ trace' = Append(trace, Call("invoke", protocol_id,
                                               check.operation, outcome))
                /\ \/ outcome = impl.base /\ impl' = impl
                   \/ /\ outcome # impl.base
                      /\ impl.faults < MaxFaults
                      /\ impl' = [impl EXCEPT !.faults = impl.faults + 1]
                /\ IF outcome = "BaseException"
                   THEN \* no except clause catches it: it leaves run_checks and
                        \* the for loop, and the finally clause runs
                        /\ pc' = AfterEscape
                        /\ run_out' = [kind |-> "pending", error |-> "BaseException",
                                       unknown |-> <<>>]
                        /\ UNCHANGED <<pidx, checks, protocol_results>>
                   ELSE LET cs == Append(checks, CheckResultOf(check, outcome))
                        IN IF Len(cs) < Len(check_fn)
                           THEN /\ checks' = cs
                                /\ UNCHANGED <<pc, pidx, protocol_results, run_out>>
                           ELSE /\ protocol_results' =
                                      SetResult(protocol_results, protocol_id,
                                                ProtocolResultOf(protocol_id, cs))
                                /\ checks' = <<>>
                                /\ pidx' = pidx + 1
                                /\ pc' = LoopPc(pidx + 1, request)
                                /\ UNCHANGED run_out
    /\ UNCHANGED <<request, run_meta, clock>>
    /\ UNCHANGED lifecycleVars
    /\ UNCHANGED scorerVars

\* finally: await self._implementation.teardown(); after it the exception
\* that was on its way goes on, or run goes on to take completed_at
Teardown ==
    /\ pc = "teardown"
    /\ \/ /\ run_out.kind = "pending"
          /\ trace' = Append(trace, Call("teardown", None, None, "returned"))
          /\ pc' = "raised"
          /\ run_out' = [run_out EXCEPT !.kind = "raised"]
       \/ /\ run_out.kind = "none"
          /\ trace' = Append(trace, Call("teardown", None, None, "returned"))
          /\ pc' = "complete"
          /\ UNCHANGED run_out
       \/ /\ trace' = Append(trace, Call("teardown", None, None, "raised"))
          /\ pc' = "raised"
          /\ run_out' = [kind |-> "raised", error |-> "teardown", unknown |-> <<>>]
    /\ UNCHANGED <<request, impl, pidx, checks, protocol_results, run_meta, clock>>
    /\ UNCHANGED lifecycleVars
    /\ UNCHANGED scorerVars

\* completed_at = datetime.now(tz=timezone.utc); return RunResult(...)
Complete ==
    /\ pc = "complete"
    /\ pc' = "done"
    /\ run_out' = [kind |-> "returned",
                   result |-> RunResultOf(requested, protocol_results, clock)]
    /\ UNCHANGED <<request, impl, trace, pidx, checks, protocol_results,
                   run_meta, clock>>
    /\ UNCHANGED lifecycleVars
    /\ UNCHANGED scorerVars

\* time passes while run awaits the adapter, and before it reads the clock
RunnerTick ==
    /\ pc \in {"setup", "loop", "teardown", "complete"}
    /\ clock < MaxRunClock
    /\ clock' = clock + 1
    /\ UNCHANGED runnerVars
    /\ UNCHANGED lifecycleVars
    /\ UNCHANGED scorerVars

\* the lifecycle manager, untouched by a run
LifecycleIdle ==
    /\ policy = [validity_period_days |-> 730, grace_period_days |-> 30,
                 max_renewals |-> 10, require_reassessment |-> TRUE]
    /\ records = <<>>
    /\ events = <<>>
    /\ lastCall = NoCall

InitRunner ==
    /\ RunnerIdle
    /\ LifecycleIdle
    /\ ScorerIdle
    /\ clock = 0


(***************************************************************************)
(* Level definitions: aumos_certify/levels.py                              *)
(***************************************************************************)
\* class CertificationLevel
BRONZE == "bronze"
SILVER == "silver"
GOLD == "gold"
PLATINUM == "platinum"
CertificationLevel == {BRONZE, SILVER, GOLD, PLATINUM}

\* LEVEL_DEFINITIONS with a Bronze level that requires aip, which Silver
\* does not
LEVEL_DEFINITIONS_NotNested ==
    [level \in CertificationLevel |->
        CASE level = BRONZE ->
                [level |-> BRONZE, minimum_score_pct |-> 60,
                 required_protocols |-> <<"atp", "aip">>]
          [] level = SILVER ->
                [level |-> SILVER, minimum_score_pct |-> 75,
                 required_protocols |-> <<"atp", "aeap", "aoap">>]
          [] level = GOLD ->
                [level |-> GOLD, minimum_score_pct |-> 90,
                 required_protocols |-> <<"atp", "aip", "aeap", "amgp", "aoap">>]
          [] level = PLATINUM ->
                [level |-> PLATINUM, minimum_score_pct |-> 95,
                 required_protocols |->
                     <<"atp", "aip", "asp", "aeap", "amgp", "aoap", "alcp">>]]

LEVEL_DEFINITIONS ==
    [level \in CertificationLevel |->
        CASE level = BRONZE ->
                [level |-> BRONZE, minimum_score_pct |-> 60,
                 required_protocols |-> <<"atp">>]
          [] level = SILVER ->
                [level |-> SILVER, minimum_score_pct |-> 75,
                 required_protocols |-> <<"atp", "aeap", "aoap">>]
          [] level = GOLD ->
                [level |-> GOLD, minimum_score_pct |-> 90,
                 required_protocols |-> <<"atp", "aip", "aeap", "amgp", "aoap">>]
          [] level = PLATINUM ->
                [level |-> PLATINUM, minimum_score_pct |-> 95,
                 required_protocols |->
                     <<"atp", "aip", "asp", "aeap", "amgp", "aoap", "alcp">>]]

LEVELS_DESCENDING ==
    << LEVEL_DEFINITIONS[PLATINUM], LEVEL_DEFINITIONS[GOLD],
       LEVEL_DEFINITIONS[SILVER], LEVEL_DEFINITIONS[BRONZE] >>

ALL_PROTOCOL_IDS == <<"atp", "aip", "asp", "aeap", "amgp", "aoap", "alcp">>

(***************************************************************************)
(* Score arithmetic: aumos_certify/types.py                                *)
(* A float score is kept as the exact ratio num/den in lowest terms; for   *)
(* the totals of this model the float comparisons with 60.0, 75.0, 90.0    *)
(* and 95.0 agree with the exact ones.                                     *)
(***************************************************************************)
RECURSIVE Gcd(_, _)
Gcd(a, b) == IF b = 0 THEN a ELSE Gcd(b, a % b)

Ratio(n, d) == LET g == Gcd(n, d) IN [num |-> n \div g, den |-> d \div g]

Zero == [num |-> 0, den |-> 1]

\* Total counting the skipped checks too
Total_WithSkipped(pr) == pr.passed + pr.failed + pr.errors + pr.skipped

\* ProtocolResult.total
Total(pr) == pr.passed + pr.failed + pr.errors

\* ProtocolResult.score
ProtocolScore(pr) == IF Total(pr) = 0 THEN Zero ELSE Ratio(pr.passed, Total(pr))

\* sum(r.total for r in results) and sum(r.passed for r in results)
RECURSIVE SumTotal(_, _)
SumTotal(results, S) ==
    IF S = {} THEN 0
    ELSE LET x == CHOOSE y \in S : TRUE
         IN Total(results[x]) + SumTotal(results, S \ {x})

RECURSIVE SumPassed(_, _)
SumPassed(results, S) ==
    IF S = {} THEN 0
    ELSE LET x == CHOOSE y \in S : TRUE
         IN results[x].passed + SumPassed(results, S \ {x})

\* RunResult.overall_score
OverallScore(rr) ==
    LET results == rr.protocol_results
        total_checks == SumTotal(results, DOMAIN results)
        total_passed == SumPassed(results, DOMAIN results)
    IN IF DOMAIN results = {} THEN Zero
       ELSE IF total_checks = 0 THEN Zero
       ELSE Ratio(total_passed, total_checks)

\* RunResult.overall_score_pct
OverallScorePct(rr) == Ratio(OverallScore(rr).num * 100, OverallScore(rr).den)

\* PctBelow with the comparison turned round
PctBelow_Inverted(score_pct, n) == score_pct.num > n * score_pct.den

\* score_pct < n and score_pct >= n for a whole number n
PctBelow(score_pct, n) == score_pct.num < n * score_pct.den
PctAtLeast(score_pct, n) == score_pct.num >= n * score_pct.den

\* round(score_pct, 2), in hundredths, ties to even
Round2(score_pct) ==
    LET scaled == score_pct.num * 100
        q == scaled \div score_pct.den
        r == scaled % score_pct.den
    IN IF 2 * r < score_pct.den THEN q
       ELSE IF 2 * r > score_pct.den THEN q + 1
       ELSE IF q % 2 = 0 THEN q ELSE q + 1

(***************************************************************************)
(* CertificationScorer: aumos_certify/scorer.py                            *)
(***************************************************************************)
\* HasPassedMust counting a passed check of any conformance level
HasPassedMust_AnyLevel(protocol_result) ==
    LET cs == protocol_result.checks
    IN \E i \in 1..Len(cs) : cs[i].status = PASS

\* must_checks and must_passes of one ProtocolResult: the protocol counts
\* when it has a MUST check that passed
HasPassedMust(protocol_result) ==
    LET cs == protocol_result.checks
        must_checks == {i \in 1..Len(cs) : cs[i].conformance_level = "MUST"}
        must_passes == {i \in must_checks : cs[i].status = PASS}
    IN ~(must_checks = {} \/ Cardinality(must_passes) = 0)

\* _level_is_satisfied: (passes, missing)
\* LevelIsSatisfied looking at the score only
LevelIsSatisfied_ScoreOnly(rr, score_pct, level_def) ==
    IF PctBelow(score_pct, level_def.minimum_score_pct)
    THEN [passes |-> FALSE, missing |-> level_def.required_protocols]
    ELSE [passes |-> TRUE, missing |-> <<>>]

LevelIsSatisfied(rr, score_pct, level_def) ==
    IF PctBelow(score_pct, level_def.minimum_score_pct)
    THEN [passes |-> FALSE, missing |-> level_def.required_protocols]
    ELSE LET missing ==
                SelectSeq(level_def.required_protocols,
                          LAMBDA required_protocol :
                              \/ required_protocol \notin DOMAIN rr.protocol_results
                              \/ ~HasPassedMust(rr.protocol_results[required_protocol]))
         IN IF missing # <<>>
            THEN [passes |-> FALSE, missing |-> missing]
            ELSE [passes |-> TRUE, missing |-> <<>>]

\* BuildLevelDetail reporting every required protocol of an unsatisfied
\* level as missing
BuildLevelDetail_FullMissing(rr, score_pct) ==
    [level \in CertificationLevel |->
        LET level_def == LEVEL_DEFINITIONS[level]
            sat == LevelIsSatisfied(rr, score_pct, level_def)
        IN [minimum_score_pct |-> level_def.minimum_score_pct,
            actual_score_pct |-> Round2(score_pct),
            score_satisfies_threshold |->
                PctAtLeast(score_pct, level_def.minimum_score_pct),
            required_protocols |-> level_def.required_protocols,
            missing_protocols |->
                IF sat.passes THEN <<>> ELSE level_def.required_protocols,
            satisfied |-> sat.passes]]

\* _build_level_detail
BuildLevelDetail(rr, score_pct) ==
    [level \in CertificationLevel |->
        LET level_def == LEVEL_DEFINITIONS[level]
            sat == LevelIsSatisfied(rr, score_pct, level_def)
        IN [minimum_score_pct |-> level_def.minimum_score_pct,
            actual_score_pct |-> Round2(score_pct),
            score_satisfies_threshold |->
                PctAtLeast(score_pct, level_def.minimum_score_pct),
            required_protocols |-> level_def.required_protocols,
            missing_protocols |-> sat.missing,
            satisfied |-> sat.passes]]

\* the for loop of score over LEVELS_DESCENDING, from position i on, with
\* the achieved_level and missing_protocols it has so far
RECURSIVE ScoreLoop(_, _, _, _, _)
ScoreLoop(i, rr, score_pct, achieved_level, missing_protocols) ==
    IF i > Len(LEVELS_DESCENDING)
    THEN [achieved_level |-> achieved_level, missing_protocols |-> missing_protocols]
    ELSE LET level_def == LEVELS_DESCENDING[i]
             sat == LevelIsSatisfied(rr, score_pct, level_def)
         IN IF sat.passes
            THEN [achieved_level |-> level_def.level, missing_protocols |-> <<>>]
            ELSE ScoreLoop(i + 1, rr, score_pct, achieved_level,
                           IF achieved_level = None THEN sat.missing
                           ELSE missing_protocols)

\* RequiredProtocolsSatisfied asking for missing protocols
RequiredProtocolsSatisfied_MissingNonEmpty(achieved_level, missing_protocols) ==
    Len(missing_protocols) # 0 /\ achieved_level # None

\* required_protocols_satisfied =
\*     len(missing_protocols) == 0 and achieved_level is not None
RequiredProtocolsSatisfied(achieved_level, missing_protocols) ==
    Len(missing_protocols) = 0 /\ achieved_level # None

\* score keeping a flag between calls: only the first call may report the
\* required protocols as satisfied
score_WithHiddenState(rr) ==
    LET score_pct == OverallScorePct(rr)
        level_detail == BuildLevelDetail(rr, score_pct)
        loop == ScoreLoop(1, rr, score_pct, None, <<>>)
        required_protocols_satisfied ==
            RequiredProtocolsSatisfied(loop.achieved_level, loop.missing_protocols)
                /\ ~cert.scored
    IN [scored |-> TRUE,
        run_result |-> rr,
        achieved_level |-> loop.achieved_level,
        score_pct |-> score_pct,
        required_protocols_satisfied |-> required_protocols_satisfied,
        missing_protocols |-> loop.missing_protocols,
        level_detail |-> level_detail]

\* CertificationScorer.score
score(rr) ==
    LET score_pct == OverallScorePct(rr)
        level_detail == BuildLevelDetail(rr, score_pct)
        loop == ScoreLoop(1, rr, score_pct, None, <<>>)
        required_protocols_satisfied ==
            RequiredProtocolsSatisfied(loop.achieved_level, loop.missing_protocols)
    IN [scored |-> TRUE,
        run_result |-> rr,
        achieved_level |-> loop.achieved_level,
        score_pct |-> score_pct,
        required_protocols_satisfied |-> required_protocols_satisfied,
        missing_protocols |-> loop.missing_protocols,
        level_detail |-> level_detail]

(***************************************************************************)
(* The runner as a state machine: a run, and the scoring of its RunResult  *)
(***************************************************************************)
\* cert_result = scorer.score(run_result): the RunResult run returned is
\* scored
ScoreRun ==
    /\ pc = "done"
    /\ ~cert.scored
    /\ run_result' = run_out.result
    /\ cert' = score(run_out.result)
    /\ UNCHANGED <<lifecycleVars, runnerVars, clock>>

NextRunner ==
    \/ RunStart
    \/ Setup
    \/ Invoke
    \/ Teardown
    \/ Complete
    \/ ScoreRun
    \/ RunnerTick

SpecRunner == InitRunner /\ [][NextRunner]_vars

(***************************************************************************)
(* Scoring hand-built RunResults, as the tests of the scorer do            *)
(***************************************************************************)
MaxOddResults == 1     \* protocol results of one RunResult drawn from OddResults
MaxRaise == 1          \* by how much the passed count of a protocol is raised

\* the protocol ids a RunResult may carry
ResultIds == <<"atp", "aip", "asp", "aeap", "amgp", "aoap", "alcp", "cross_protocol">>

CR(conformance_level, status) ==
    [check_id |-> "check", status |-> status, message |-> None,
     conformance_level |-> conformance_level]

PR(cs, passed, failed, skipped, errors) ==
    [checks |-> cs, passed |-> passed, failed |-> failed,
     skipped |-> skipped, errors |-> errors]

\* the two usual results: every check passed, with a MUST check among
\* them; the only check, a MUST one, failed
UsualResults ==
    { PR(<<CR("MUST", PASS)>>, 3, 0, 0, 0),
      PR(<<CR("MUST", FAIL)>>, 0, 1, 0, 0) }

\* SHOULD checks only, all passing; one MUST passed and one failed; every
\* check skipped; the MUST check errored; counts without any check; a MAY
\* check passed beside a failed MUST
OddResults ==
    { PR(<<CR("SHOULD", PASS)>>, 1, 0, 0, 0),
      PR(<<CR("MUST", PASS), CR("MUST", FAIL)>>, 1, 1, 0, 0),
      PR(<<CR("SHOULD", SKIP)>>, 0, 0, 1, 0),
      PR(<<CR("MUST", ERROR)>>, 0, 0, 0, 1),
      PR(<<>>, 3, 0, 0, 0),
      PR(<<CR("MUST", FAIL), CR("MAY", PASS)>>, 1, 1, 0, 0) }

OddCount(rr) ==
    Cardinality({p \in DOMAIN rr.protocol_results :
                    PR(rr.protocol_results[p].checks, rr.protocol_results[p].passed,
                       rr.protocol_results[p].failed, rr.protocol_results[p].skipped,
                       rr.protocol_results[p].errors) \in OddResults})

\* the test adds the result of one more protocol to the RunResult it builds
\* (protocols are added in the order of ResultIds)
AddProtocolResult ==
    /\ ~cert.scored
    /\ \E i \in 1..Len(ResultIds), shape \in UsualResults \cup OddResults :
          /\ \A j \in 1..Len(ResultIds) :
                ResultIds[j] \in DOMAIN run_result.protocol_results => j < i
          /\ shape \in OddResults => OddCount(run_result) < MaxOddResults
          /\ run_result' =
                [run_result EXCEPT
                    !.protocols_run = Append(@, ResultIds[i]),
                    !.protocol_results =
                        SetResult(@, ResultIds[i],
                                  [protocol |-> ResultIds[i],
                                   checks |-> shape.checks,
                                   passed |-> shape.passed,
                                   failed |-> shape.failed,
                                   skipped |-> shape.skipped,
                                   errors |-> shape.errors])]
    /\ UNCHANGED cert
    /\ UNCHANGED <<lifecycleVars, runnerVars, clock>>

\* scorer.score(run_result)
Score ==
    /\ ~cert.scored
    /\ cert' = score(run_result)
    /\ UNCHANGED run_result
    /\ UNCHANGED <<lifecycleVars, runnerVars, clock>>

\* a RunResult as AddProtocolResult builds them
IsHandBuilt(rr) ==
    \A p \in DOMAIN rr.protocol_results :
        PR(rr.protocol_results[p].checks, rr.protocol_results[p].passed,
           rr.protocol_results[p].failed, rr.protocol_results[p].skipped,
           rr.protocol_results[p].errors) \in UsualResults \cup OddResults

\* the RunResult with one protocol's passed count k higher, all else equal
RaisedResult(rr, p, k) ==
    [rr EXCEPT !.protocol_results[p].passed = @ + k]

\* the test scores a second RunResult, which differs from the one just
\* scored in the passed count of one protocol
RaisePassed ==
    /\ cert.scored
    /\ IsHandBuilt(run_result)
    /\ \E p \in DOMAIN run_result.protocol_results, k \in 1..MaxRaise :
          /\ run_result' = RaisedResult(run_result, p, k)
          /\ cert' = score(RaisedResult(run_result, p, k))
    /\ UNCHANGED <<lifecycleVars, runnerVars, clock>>

\* the CertificationResult of a second call, told apart from the first
Again(c) ==
    [f \in (DOMAIN c) \cup {"again"} |-> IF f = "again" THEN TRUE ELSE c[f]]

\* scorer.score(run_result) once more, on the RunResult scored first
Rescore ==
    /\ cert.scored
    /\ IsHandBuilt(run_result)
    /\ "again" \notin DOMAIN cert
    /\ cert' = Again(score(run_result))
    /\ UNCHANGED run_result
    /\ UNCHANGED <<lifecycleVars, runnerVars, clock>>

InitScorer ==
    /\ ScorerIdle
    /\ RunnerIdle
    /\ LifecycleIdle
    /\ clock = 0

NextScorer ==
    \/ AddProtocolResult
    \/ Score

SpecScorer == InitScorer /\ [][NextScorer]_vars

\* the scorer called more than once
NextRescore ==
    \/ AddProtocolResult
    \/ Score
    \/ RaisePassed
    \/ Rescore

SpecRescore == InitScorer /\ [][NextRescore]_vars

(***************************************************************************)
(* Properties of the scorer                                                *)
(***************************************************************************)
\* the levels from the highest down
LevelsHighToLow == <<PLATINUM, GOLD, SILVER, BRONZE>>

\* a level is satisfied by the scored RunResult: the score reaches its
\* minimum and every required protocol was run and has a check that is both
\* MUST and PASS
Satisfies(c, level) ==
    LET d == LEVEL_DEFINITIONS[level]
        results == c.run_result.protocol_results
    IN /\ c.score_pct.num >= d.minimum_score_pct * c.score_pct.den
       /\ \A i \in 1..Len(d.required_protocols) :
             LET p == d.required_protocols[i]
             IN /\ p \in DOMAIN results
                /\ \E k \in 1..Len(results[p].checks) :
                      /\ results[p].checks[k].conformance_level = "MUST"
                      /\ results[p].checks[k].status = PASS

\* C1: score awards the highest satisfied level, in the order Platinum,
\* Gold, Silver, Bronze; achieved_level is None exactly when no level is
\* satisfied.  A required protocol that was not run or has no passing MUST
\* check leaves the level unsatisfied.
C1_HighestSatisfiedLevel ==
    cert.scored =>
        /\ cert.achieved_level =
              (IF Satisfies(cert, PLATINUM) THEN PLATINUM
               ELSE IF Satisfies(cert, GOLD) THEN GOLD
               ELSE IF Satisfies(cert, SILVER) THEN SILVER
               ELSE IF Satisfies(cert, BRONZE) THEN BRONZE
               ELSE None)
        /\ (cert.achieved_level = None) <=>
              (\A level \in CertificationLevel : ~Satisfies(cert, level))

\* atp was run, all its checks passed, none of them a MUST check: no level
\* is awarded although the score is 100%
C1_Witness ==
    /\ cert.scored
    /\ "atp" \in DOMAIN cert.run_result.protocol_results
    /\ cert.run_result.protocol_results["atp"].checks = <<CR("SHOULD", PASS)>>
    /\ cert.score_pct = [num |-> 100, den |-> 1]
    /\ cert.achieved_level = None

\* the protocols a level still misses in the scored RunResult: all the
\* required ones when the score is below the minimum, else the required
\* ones that were not run or have no passed MUST check
MissingFor(c, level) ==
    LET d == LEVEL_DEFINITIONS[level]
        results == c.run_result.protocol_results
    IN IF c.score_pct.num < d.minimum_score_pct * c.score_pct.den
       THEN d.required_protocols
       ELSE SelectSeq(d.required_protocols,
                      LAMBDA p :
                          \/ p \notin DOMAIN results
                          \/ ~\E k \in 1..Len(results[p].checks) :
                                /\ results[p].checks[k].conformance_level = "MUST"
                                /\ results[p].checks[k].status = PASS)

\* C14 as claimed: when no level is satisfied, missing_protocols is the
\* missing set of Platinum, the first level evaluated; when a level is
\* satisfied, missing_protocols is empty.
C14_MissingFromHighestLevel ==
    cert.scored =>
        /\ cert.achieved_level = None =>
              cert.missing_protocols = MissingFor(cert, PLATINUM)
        /\ cert.achieved_level # None => cert.missing_protocols = <<>>

\* None < BRONZE < SILVER < GOLD < PLATINUM
LevelRank(level) ==
    CASE level = None -> 0
      [] level = BRONZE -> 1
      [] level = SILVER -> 2
      [] level = GOLD -> 3
      [] level = PLATINUM -> 4

\* new differs from old only in the passed count of one protocol, which is higher
OnlyPassedRaised(old, new) ==
    /\ DOMAIN new.protocol_results = DOMAIN old.protocol_results
    /\ \E p \in DOMAIN old.protocol_results :
          /\ new.protocol_results[p].passed > old.protocol_results[p].passed
          /\ new = [old EXCEPT !.protocol_results[p].passed =
                                    new.protocol_results[p].passed]

\* C19: when a second RunResult is scored that differs from the one scored
\* before only in a higher passed count of one protocol, its achieved_level
\* is not lower than the first one's.
C19_MonotoneInPassed ==
    [][ (cert.scored /\ cert'.scored /\ OnlyPassedRaised(run_result, run_result')) =>
            /\ cert.run_result = run_result
            /\ cert'.run_result = run_result'
            /\ LevelRank(cert'.achieved_level) >= LevelRank(cert.achieved_level)
      ]_vars

\* a scored RunResult that reached a level which the RunResult with one
\* passed check less in one protocol does not reach
C19_Witness ==
    /\ cert.scored
    /\ ~IsHandBuilt(run_result)
    /\ cert.run_result = run_result
    /\ \E p \in DOMAIN run_result.protocol_results, k \in 1..MaxRaise :
          LET before == [run_result EXCEPT !.protocol_results[p].passed = @ - k]
          IN /\ run_result.protocol_results[p].passed >= k
             /\ IsHandBuilt(before)
             /\ LevelRank(score(before).achieved_level)
                   < LevelRank(cert.achieved_level)

\* the fields of a CertificationResult that score computes
ResultFields ==
    {"achieved_level", "score_pct", "required_protocols_satisfied",
     "missing_protocols", "level_detail"}

CallsOf(tr, call) == {i \in 1..Len(tr) : tr[i].call = call}

\* the step is one adapter.invoke
InvokeStep == Len(trace') = Len(trace) + 1 /\ Last(trace').call = "invoke"

\* the CheckResult the check function of that step returned
NewCheckResult ==
    IF checks' # <<>> THEN Last(checks')
    ELSE Last(protocol_results'[Last(trace').protocol].checks)

\* C4 as claimed: in every protocol module a NotImplementedError from
\* adapter.invoke gives FAIL for a MUST check and SKIP for a SHOULD check,
\* and any other exception gives ERROR.
C4_NotImplementedMapping ==
    [][ (InvokeStep /\ Last(trace').outcome \in {"NotImplementedError", "Exception"}) =>
           /\ Last(trace').outcome = "NotImplementedError" =>
                 NewCheckResult.status =
                     (IF NewCheckResult.conformance_level = "MUST" THEN FAIL ELSE SKIP)
           /\ Last(trace').outcome = "Exception" => NewCheckResult.status = ERROR
      ]_vars

SetupReturned ==
    \E i \in CallsOf(trace, "setup") : trace[i].outcome = "returned"

Escaped ==
    \E i \in CallsOf(trace, "invoke") : trace[i].outcome = "BaseException"

\* C5: once setup has returned, a run that has ended, by returning or by
\* raising, has called teardown exactly once, as the last call on the
\* adapter and so after its last invoke; nothing is called after teardown.
\* When an exception escaped a check, run raises and returns no RunResult,
\* and what it raises is that exception when teardown returned.
C5_TeardownOnce ==
    /\ \A i \in CallsOf(trace, "teardown") : i = Len(trace)
    /\ (SetupReturned /\ pc \in {"done", "raised"}) =>
          /\ Cardinality(CallsOf(trace, "teardown")) = 1
          /\ Last(trace).call = "teardown"
          /\ Escaped =>
                /\ pc = "raised"
                /\ run_out.kind = "raised"
                /\ Last(trace).outcome = "returned" => run_out.error = "BaseException"
    /\ (pc = "done") <=> (run_out.kind = "returned")

\* a run whose second protocol let an exception escape: teardown ran after
\* it and the exception reached the caller
C5_Witness ==
    /\ pc = "raised"
    /\ Escaped
    /\ Len(trace) >= 3
    /\ trace[Len(trace) - 1].outcome = "BaseException"
    /\ Last(trace) = Call("teardown", None, None, "returned")
    /\ run_out.error = "BaseException"
    /\ DOMAIN protocol_results # {}

\* the ids of the request that no check module is registered for
UnregisteredIn(ids) ==
    SelectSeq(ids, LAMBDA p : p \notin {"atp", "aip", "aeap", "amgp", "aoap",
                                        "cross_protocol"})

\* C6: a request with an unregistered protocol id is rejected with a
\* ValueError naming every unregistered id, and the adapter receives no
\* call at all: no setup, no invoke, no teardown.
C6_UnknownProtocolRejected ==
    (pc # "idle" /\ request.given /\ UnregisteredIn(request.ids) # <<>>) =>
        /\ pc = "raised"
        /\ run_out.kind = "raised"
        /\ run_out.error = "ValueError"
        /\ run_out.unknown = UnregisteredIn(request.ids)
        /\ trace = <<>>

\* a rejected request that named a registered protocol before an unregistered one
C6_Witness ==
    /\ pc = "raised"
    /\ request.given
    /\ Len(request.ids) = 2
    /\ request.ids[1] = "atp"
    /\ request.ids[2] = "asp"
    /\ run_out.error = "ValueError"

\* C15 as claimed: a response the judgement of the check does not accept
\* gives FAIL, whatever the conformance level of the check, and SKIP is
\* only returned for a SHOULD check whose operation is not implemented.
C15_WrongAnswerFails ==
    [][ InvokeStep =>
          /\ Last(trace').outcome = "unsatisfying" => NewCheckResult.status = FAIL
          /\ (Last(trace').outcome # "BaseException" /\ NewCheckResult.status = SKIP) =>
                /\ Last(trace').outcome = "NotImplementedError"
                /\ NewCheckResult.conformance_level = "SHOULD"
      ]_vars

\* the protocols a run has to check, as the caller named them; the
\* registered ones in registration order when the caller named none
ProtocolsToRun ==
    IF request.given THEN request.ids
    ELSE <<"atp", "aip", "aeap", "amgp", "aoap", "cross_protocol">>

\* the checks of these protocols, one after the other, in declared order
RECURSIVE PlanOf(_)
PlanOf(ids) ==
    IF ids = <<>> THEN <<>>
    ELSE LET declared == PROTOCOL_REGISTRY[Head(ids)]
         IN [i \in 1..Len(declared) |->
                [protocol |-> Head(ids), check |-> declared[i]]]
            \o PlanOf(Tail(ids))

\* the invokes the adapter has received, in order
Invokes == SelectSeq(trace, LAMBDA c : c.call = "invoke")

\* C16: whatever each invoke does (return a mapping, signal not implemented,
\* raise another exception), the adapter receives exactly one invoke per
\* check, in the declared order of the checks and the requested order of the
\* protocols; the run does not stop early, and every ProtocolResult holds one
\* CheckResult per check of its protocol, in declared order.
C16_EveryCheckInvokedOnce ==
    trace # <<>> =>
        LET plan == PlanOf(ProtocolsToRun)
        IN /\ Len(Invokes) <= Len(plan)
           /\ \A k \in 1..Len(Invokes) :
                 /\ Invokes[k].protocol = plan[k].protocol
                 /\ Invokes[k].operation = plan[k].check.operation
           /\ (~Escaped /\ (pc \in {"teardown", "complete", "done"}
                              \/ CallsOf(trace, "teardown") # {})) =>
                 Len(Invokes) = Len(plan)
           /\ DOMAIN protocol_results = {ProtocolsToRun[j] : j \in 1..(pidx - 1)}
           /\ \A p \in DOMAIN protocol_results :
                 LET declared == PROTOCOL_REGISTRY[p]
                     result == protocol_results[p]
                 IN /\ result.protocol = p
                    /\ Len(result.checks) = Len(declared)
                    /\ \A i \in 1..Len(declared) :
                          /\ result.checks[i].check_id = declared[i].check_id
                          /\ result.checks[i].conformance_level
                                = declared[i].conformance_level
           /\ pc = "loop" =>
                 \A i \in 1..Len(checks) :
                    checks[i].check_id
                        = PROTOCOL_REGISTRY[ProtocolsToRun[pidx]][i].check_id
           /\ pc = "done" =>
                 DOMAIN run_out.result.protocol_results = SeqToSet(ProtocolsToRun)

\* a run of two protocols that returned although a check of the first one
\* got an exception from the adapter
C16_Witness ==
    /\ pc = "done"
    /\ request.given
    /\ Len(request.ids) = 2
    /\ request.ids[1] # request.ids[2]
    /\ Invokes[2].outcome = "Exception"
    /\ protocol_results[request.ids[1]].checks[2].status = ERROR
    /\ protocol_results[request.ids[1]].checks[3].status = PASS
    /\ protocol_results[request.ids[2]].passed >= 1

\* the tallies of one ProtocolResult are the exact counts by status
ExactTallies(result) ==
    LET n(status) == Cardinality({i \in 1..Len(result.checks) :
                                     result.checks[i].status = status})
    IN /\ result.passed = n(PASS)
       /\ result.failed = n(FAIL)
       /\ result.skipped = n(SKIP)
       /\ result.errors = n(ERROR)
       /\ result.passed + result.failed + result.skipped + result.errors
             = Len(result.checks)
       /\ Total(result) = result.passed + result.failed + result.errors
       /\ Total(result) = Len(result.checks) - n(SKIP)

\* C17: every ProtocolResult a run_checks returned has passed, failed,
\* skipped and errors equal to the number of its checks with status PASS,
\* FAIL, SKIP and ERROR; the four add up to the number of checks and total
\* leaves the skipped ones out.
C17_ExactTallies ==
    /\ \A p \in DOMAIN protocol_results : ExactTallies(protocol_results[p])
    /\ run_out.kind = "returned" =>
          \A p \in DOMAIN run_out.result.protocol_results :
              ExactTallies(run_out.result.protocol_results[p])

\* a ProtocolResult with passed, failed and skipped checks
C17_Witness ==
    \E p \in DOMAIN protocol_results :
        /\ protocol_results[p].passed >= 1
        /\ protocol_results[p].failed >= 1
        /\ protocol_results[p].skipped >= 1
        /\ Total(protocol_results[p]) < Len(protocol_results[p].checks)

\* what the adapter has seen of a run that returned: setup once and first,
\* then the invokes protocol after protocol in the order of the request,
\* then teardown once and last
ReturnedRunOrder ==
    pc = "done" =>
        LET plan == PlanOf(ProtocolsToRun)
            result == run_out.result
        IN /\ Len(trace) = Len(plan) + 2
           /\ trace[1] = Call("setup", None, None, "returned")
           /\ CallsOf(trace, "setup") = {1}
           /\ Last(trace) = Call("teardown", None, None, "returned")
           /\ CallsOf(trace, "teardown") = {Len(trace)}
           /\ \A k \in 1..Len(plan) :
                 /\ trace[k + 1].call = "invoke"
                 /\ trace[k + 1].protocol = plan[k].protocol
           /\ result.protocols_run = ProtocolsToRun
           /\ result.started_at = run_meta.started_at
           /\ result.started_at <= result.completed_at

\* C18: in a run that returns, the adapter sees setup exactly once and
\* before any invoke, the checks of the requested protocols one protocol
\* after the other in the order of the request (registration order when the
\* request names none), then teardown; started_at is read before setup is
\* called and completed_at after teardown has returned, so that
\* started_at <= completed_at.
C18_RunOrder ==
    [][ /\ run_meta' # run_meta =>
              /\ trace' = <<>>
              /\ pc' = "setup"
              /\ run_meta'.started_at = clock
        /\ (trace = <<>> /\ trace' # <<>>) =>
              /\ pc = "setup"
              /\ Last(trace').call = "setup"
              /\ run_meta.started_at <= clock
        /\ (pc # "done" /\ pc' = "done") =>
              /\ pc = "complete"
              /\ trace' = trace
              /\ Last(trace) = Call("teardown", None, None, "returned")
              /\ run_out'.result.completed_at = clock
        /\ ReturnedRunOrder'
      ]_vars

\* a run without a protocols argument that returned, during which the
\* clock advanced
C18_Witness ==
    /\ pc = "done"
    /\ ~request.given
    /\ Len(trace) = 26
    /\ trace[2].protocol = "atp"
    /\ trace[25].protocol = "cross_protocol"
    /\ run_out.result.started_at < run_out.result.completed_at

(***************************************************************************)
(* Properties of the lifecycle manager                                     *)
(***************************************************************************)
RecordOps == {"renew", "revoke", "suspend", "reinstate"}

\* the step is a public call of one of ops (time does not pass inside a call)
CallStep(ops) == clock' = clock /\ lastCall'.op \in ops

\* the step is a call of op on record rid
CallOn(op, rid) == CallStep({op}) /\ lastCall'.record_id = rid

Rejected(call) == call.outcome \in {"KeyError", "ValueError"}

\* the events of one type recorded for a record
EventsOfType(rid, type) ==
    {i \in 1..Len(events[rid]) : events[rid][i].event_type = type}

LastEventType(rid) == events[rid][Len(events[rid])].event_type

\* C2: REVOKED is terminal.  A record that is REVOKED stays REVOKED with the
\* same revocation_reason through every later call, renew, revoke, suspend
\* and reinstate on it are rejected, and the reason it carries is the one
\* given to the single revoke that succeeded (recorded in its 'revoked' event).
C2_RevokedIsTerminal ==
    [][ /\ \A rid \in DOMAIN records :
              records[rid].state = REVOKED =>
                  /\ records'[rid].state = REVOKED
                  /\ records'[rid].revocation_reason = records[rid].revocation_reason
                  /\ \A op \in RecordOps :
                        CallOn(op, rid) => lastCall'.outcome = "ValueError"
        /\ \A rid \in DOMAIN records' :
              records'[rid].state = REVOKED =>
                  /\ Cardinality({i \in 1..Len(events'[rid]) :
                                    events'[rid][i].event_type = "revoked"}) = 1
                  /\ \A i \in 1..Len(events'[rid]) :
                        events'[rid][i].event_type = "revoked" =>
                            events'[rid][i].details = <<records'[rid].revocation_reason>>
      ]_vars

\* a revoked record on which a further revoke, with another reason, was just rejected
C2_Witness ==
    \E rid \in DOMAIN records :
        /\ records[rid].state = REVOKED
        /\ records[rid].revocation_reason = "r1"
        /\ lastCall.op \in RecordOps
        /\ lastCall.record_id = rid
        /\ lastCall.outcome = "ValueError"
        /\ lastCall.error \in {"revoked", "already_revoked", "not_suspended"}

\* C3: a rejected renew, revoke, suspend or reinstate leaves the registry and
\* the event log exactly as they were; the call is rejected with KeyError
\* exactly when the record_id is unknown, whatever else is wrong with the
\* call, and with ValueError otherwise.
C3_RejectionChangesNothing ==
    [][ CallStep(RecordOps) =>
          /\ Rejected(lastCall') => (records' = records /\ events' = events)
          /\ lastCall'.outcome \in {"ok", "KeyError", "ValueError"}
          /\ (lastCall'.outcome = "KeyError") <=> (lastCall'.record_id \notin DOMAIN records)
          /\ (lastCall'.outcome = "KeyError") <=> (lastCall'.error = "not_found")
      ]_vars

\* a renew was just rejected for its missing hash, on a record with events
C3_Witness ==
    /\ lastCall.op = "renew"
    /\ lastCall.outcome = "ValueError"
    /\ lastCall.error = "hash_required"
    /\ lastCall.record_id \in DOMAIN records
    /\ Len(events[lastCall.record_id]) >= 2

\* C7: renew succeeds only from ACTIVE, or from EXPIRED within the grace
\* period, and only below max_renewals; the record it stores is ACTIVE,
\* expires validity_period_days after now and has one more renewal; renew on
\* a REVOKED or SUSPENDED record is rejected.
C7_RenewContract ==
    [][ \A rid \in DOMAIN records :
          CallOn("renew", rid) =>
            LET old == records[rid]
                new == records'[rid]
            IN /\ lastCall'.outcome = "ok" =>
                    /\ old.state \in {ACTIVE, EXPIRED}
                    /\ old.state = EXPIRED =>
                          clock <= old.expires_at + policy.grace_period_days
                    /\ old.renewal_count < policy.max_renewals
                    /\ new.state = ACTIVE
                    /\ new.expires_at = clock + policy.validity_period_days
                    /\ new.renewal_count = old.renewal_count + 1
               /\ old.state \in {REVOKED, SUSPENDED} => lastCall'.outcome = "ValueError"
      ]_vars

\* a record that was swept to EXPIRED and then renewed within its grace period
C7_Witness ==
    \E rid \in DOMAIN records :
        /\ lastCall.op = "renew" /\ lastCall.outcome = "ok" /\ lastCall.record_id = rid
        /\ Len(events[rid]) >= 3
        /\ events[rid][Len(events[rid]) - 1].event_type = "expired"
        /\ LastEventType(rid) = "renewed"
        /\ records[rid].state = ACTIVE
        /\ records[rid].renewal_count = 1

\* C8 as claimed: a renew attempted after the grace deadline of the record
\* (now > expires_at + grace_period_days) is rejected and the record keeps
\* its expiry.
C8_NoRenewAfterGrace ==
    [][ \A rid \in DOMAIN records :
          (CallOn("renew", rid)
             /\ clock > records[rid].expires_at + policy.grace_period_days) =>
                /\ lastCall'.outcome = "ValueError"
                /\ records'[rid].expires_at = records[rid].expires_at
      ]_vars

\* C9: every record has 0 <= renewal_count <= max_renewals; the count is 0
\* on issue, one higher after each successful renew, and no other call
\* changes it.
C9_RenewalCountBounds ==
    [][ \A rid \in DOMAIN records' :
          /\ records'[rid].renewal_count \in 0..policy.max_renewals
          /\ rid \notin DOMAIN records => records'[rid].renewal_count = 0
          /\ rid \in DOMAIN records =>
                records'[rid].renewal_count =
                    IF CallOn("renew", rid) /\ lastCall'.outcome = "ok"
                    THEN records[rid].renewal_count + 1
                    ELSE records[rid].renewal_count
      ]_vars

\* a record renewed up to the limit, whose next renew was just rejected
C9_Witness ==
    \E rid \in DOMAIN records :
        /\ policy.max_renewals >= 1
        /\ records[rid].renewal_count = policy.max_renewals
        /\ lastCall.op = "renew" /\ lastCall.record_id = rid
        /\ lastCall.error = "max_renewals"

\* C10: suspend succeeds exactly from ACTIVE and EXPIRED and sets SUSPENDED;
\* reinstate succeeds exactly from SUSPENDED and sets ACTIVE; both leave
\* every other field of the record as it was.
C10_SuspendReinstate ==
    [][ \A rid \in DOMAIN records :
          LET old == records[rid]
              new == records'[rid]
          IN /\ CallOn("suspend", rid) =>
                  /\ (lastCall'.outcome = "ok") <=> (old.state \in {ACTIVE, EXPIRED})
                  /\ old.state \in {SUSPENDED, REVOKED} => lastCall'.outcome = "ValueError"
                  /\ lastCall'.outcome = "ok" => new = [old EXCEPT !.state = SUSPENDED]
             /\ CallOn("reinstate", rid) =>
                  /\ (lastCall'.outcome = "ok") <=> (old.state = SUSPENDED)
                  /\ old.state # SUSPENDED => lastCall'.outcome = "ValueError"
                  /\ lastCall'.outcome = "ok" => new = [old EXCEPT !.state = ACTIVE]
      ]_vars

\* a record that expired, was suspended and has just been reinstated
C10_Witness ==
    \E rid \in DOMAIN records :
        /\ lastCall.op = "reinstate" /\ lastCall.outcome = "ok"
        /\ lastCall.record_id = rid
        /\ Len(events[rid]) >= 4
        /\ events[rid][Len(events[rid]) - 2].event_type = "expired"
        /\ events[rid][Len(events[rid]) - 1].event_type = "suspended"
        /\ records[rid].state = ACTIVE
        /\ records[rid].expires_at < clock

\* the step is a call of check_expirations
SweepStep == CallStep({"check_expirations"})

\* the records a sweep at reference time t has to move to EXPIRED
Due(t) ==
    {rid \in DOMAIN records :
        records[rid].state = ACTIVE /\ records[rid].expires_at < t}

\* C11: check_expirations(reference_time) moves to EXPIRED exactly the ACTIVE
\* records with expires_at < reference_time, returns exactly those records,
\* and leaves every other record as it was; a record becomes EXPIRED only in
\* a call of check_expirations, never in another call nor when time passes.
C11_SweepFrame ==
    [][ /\ SweepStep =>
              LET due == Due(lastCall'.reference)
                  result == lastCall'.result
              IN /\ lastCall'.outcome = "ok"
                 /\ DOMAIN records' = DOMAIN records
                 /\ \A rid \in DOMAIN records :
                       records'[rid] = IF rid \in due
                                       THEN [records[rid] EXCEPT !.state = EXPIRED]
                                       ELSE records[rid]
                 /\ Len(result) = Cardinality(due)
                 /\ {result[i] : i \in 1..Len(result)} = {records'[rid] : rid \in due}
        /\ \A rid \in DOMAIN records' :
              (/\ records'[rid].state = EXPIRED
               /\ rid \in DOMAIN records => records[rid].state # EXPIRED) => SweepStep
        /\ clock' # clock => records' = records
      ]_vars

\* a sweep has just expired one record and left alone an ACTIVE record that
\* expires exactly at the reference time
C11_Witness ==
    /\ lastCall.op = "check_expirations"
    /\ Len(lastCall.result) = 1
    /\ \E rid \in DOMAIN records :
          /\ records[rid].state = ACTIVE
          /\ records[rid].expires_at = lastCall.reference
    /\ \E rid \in DOMAIN records :
          /\ records[rid].state = EXPIRED
          /\ lastCall.result[1] = records[rid]

\* C12: a check_expirations that follows a check_expirations with the same
\* reference time returns an empty list, appends no event and leaves the
\* registry unchanged.
C12_SweepIdempotent ==
    [][ (/\ SweepStep
         /\ lastCall.op = "check_expirations"
         /\ lastCall'.reference = lastCall.reference) =>
            /\ lastCall'.result = <<>>
            /\ events' = events
            /\ records' = records
      ]_vars

\* the sweep was just repeated with the reference time at which the sweep
\* before it expired a record
C12_Witness ==
    /\ lastCall.op = "check_expirations"
    /\ lastCall.repeat
    /\ lastCall.result = <<>>
    /\ \E rid \in DOMAIN records :
          /\ records[rid].state = EXPIRED
          /\ LastEventType(rid) = "expired"
          /\ events[rid][Len(events[rid])].occurred_at = lastCall.reference

\* the event type of each transition
EventTypeOf(op) ==
    CASE op = "renew" -> "renewed"
      [] op = "revoke" -> "revoked"
      [] op = "suspend" -> "suspended"
      [] op = "reinstate" -> "reinstated"
      [] op = "check_expirations" -> "expired"

\* the step applies a successful transition to record rid: a renew, revoke,
\* suspend or reinstate on it that returned, or a sweep that returned it
TransitionOn(rid) ==
    \/ /\ CallStep(RecordOps)
       /\ lastCall'.record_id = rid
       /\ lastCall'.outcome = "ok"
    \/ /\ SweepStep
       /\ \E i \in 1..Len(lastCall'.result) : lastCall'.result[i].record_id = rid

\* C13: the event log is append-only with one event per successful
\* transition.  A record starts with its 'issued' event; every step keeps
\* the events already recorded, adds exactly one event, of the type of the
\* transition, to a record a successful transition was applied to, and adds
\* nothing to any other record; so a record has 1 + (successful transitions)
\* events, and as many 'renewed' events as its renewal_count tells.
C13_EventLogAppendOnly ==
    [][ /\ DOMAIN events' = DOMAIN records'
        /\ \A rid \in DOMAIN events' \ DOMAIN events :
              /\ CallStep({"issue"})
              /\ lastCall'.record_id = rid
              /\ Len(events'[rid]) = 1
              /\ events'[rid][1].event_type = "issued"
        /\ \A rid \in DOMAIN events :
              /\ rid \in DOMAIN events'
              /\ Len(events'[rid]) =
                    Len(events[rid]) + (IF TransitionOn(rid) THEN 1 ELSE 0)
              /\ SubSeq(events'[rid], 1, Len(events[rid])) = events[rid]
              /\ TransitionOn(rid) =>
                    /\ Last(events'[rid]).event_type = EventTypeOf(lastCall'.op)
                    /\ Last(events'[rid]).record_id = rid
        /\ \A rid \in DOMAIN records' :
              /\ events'[rid][1].event_type = "issued"
              /\ Cardinality({i \in 1..Len(events'[rid]) :
                                 events'[rid][i].event_type = "issued"}) = 1
              /\ Cardinality({i \in 1..Len(events'[rid]) :
                                 events'[rid][i].event_type = "renewed"})
                    = records'[rid].renewal_count
      ]_vars

\* a record issued, renewed, suspended and revoked, on which a further call
\* was just rejected: four events, one per transition
C13_Witness ==
    \E rid \in DOMAIN records :
        /\ Len(events[rid]) = 4
        /\ [i \in 1..4 |-> events[rid][i].event_type]
              = <<"issued", "renewed", "suspended", "revoked">>
        /\ lastCall.record_id = rid
        /\ lastCall.outcome = "ValueError"

(***************************************************************************)
(* C25: the assessment report hash                                         *)
(***************************************************************************)
\* the step is the call renew(rid, h)
RenewCall(rid, h) == CallOn("renew", rid) /\ Apply(renew(rid, h))

\* the step is the call issue(a, l, h)
IssueCall(a, l, h) == CallStep({"issue"}) /\ Apply(issue(a, l, h))

\* C25: when the policy requires a reassessment a renew without a new hash
\* is rejected and a successful renew stores the hash it was given; when it
\* does not, a successful renew stores the hash it was given and keeps the
\* previous one if none was given; issue stores the hash it was given, and
\* no call but a successful renew changes the hash of an existing record.
C25_ReportHashPolicy ==
    [][ /\ \A rid \in DOMAIN records, h \in Hashes \cup {None} :
              RenewCall(rid, h) =>
                  /\ (policy.require_reassessment /\ h = None) =>
                          (Rejected(lastCall') /\ records' = records)
                  /\ lastCall'.outcome = "ok" =>
                          records'[rid].assessment_report_hash =
                              IF h # None THEN h
                              ELSE records[rid].assessment_report_hash
        /\ \A a \in AgentIds, l \in CertLevels, h \in IssueHashes :
              IssueCall(a, l, h) =>
                  records'[lastCall'.record_id].assessment_report_hash = h
        /\ \A rid \in DOMAIN records :
              records'[rid].assessment_report_hash
                      # records[rid].assessment_report_hash =>
                  (CallOn("renew", rid) /\ lastCall'.outcome = "ok")
      ]_vars

\* without required reassessment one record was renewed to a new hash and
\* another one was renewed and still has the hash it was issued with
C25_Witness ==
    /\ ~policy.require_reassessment
    /\ lastCall.op = "renew"
    /\ lastCall.outcome = "ok"
    /\ \E r1 \in DOMAIN records, r2 \in DOMAIN records :
          /\ records[r1].renewal_count = 1
          /\ records[r1].assessment_report_hash = "h2"
          /\ records[r2].renewal_count = 1
          /\ records[r2].assessment_report_hash = "h1"

(***************************************************************************)
(* C26: records are kept, one snapshot per id, and calls are local         *)
(***************************************************************************)
\* C26: no record is ever deleted: every record_id issue returned stays
\* retrievable with get_record, under its own id and as one snapshot; its
\* record_id, agent_id, certification_level and issued_at stay the values
\* set at issue (the ones its 'issued' event tells); and a call on one
\* record, or an issue, changes no other record and no other record's
\* events.
C26_RecordsKeptAndLocal ==
    [][ /\ DOMAIN records \subseteq DOMAIN records'
        /\ \A rid \in DOMAIN records' :
              /\ get_record(rid)' = records'[rid]
              /\ get_record(rid)'.record_id = rid
              /\ get_record(rid)'.issued_at = events'[rid][1].occurred_at
              /\ get_record(rid)'.certification_level = events'[rid][1].details[1]
              /\ get_record(rid)'.agent_id = events'[rid][1].details[2]
        /\ \A rid \in DOMAIN records :
              /\ get_record(rid)'.record_id = get_record(rid).record_id
              /\ get_record(rid)'.agent_id = get_record(rid).agent_id
              /\ get_record(rid)'.certification_level
                    = get_record(rid).certification_level
              /\ get_record(rid)'.issued_at = get_record(rid).issued_at
        /\ CallStep({"issue"}) =>
              /\ lastCall'.record_id \notin DOMAIN records
              /\ \E rid \in DOMAIN records' :
                    /\ rid = lastCall'.record_id
                    /\ get_record(rid)' = lastCall'.result[1]
              /\ \A other \in DOMAIN records :
                    /\ records'[other] = records[other]
                    /\ events'[other] = events[other]
        /\ \A op \in RecordOps, rid \in CallIds :
              CallOn(op, rid) =>
                  \A other \in DOMAIN records \ {rid} :
                      /\ records'[other] = records[other]
                      /\ events'[other] = events[other]
      ]_vars

\* the first of two records was just revoked; the second one is as issued
C26_Witness ==
    /\ DOMAIN records = {1, 2}
    /\ lastCall.op = "revoke"
    /\ lastCall.outcome = "ok"
    /\ lastCall.record_id = 1
    /\ get_record(1).state = REVOKED
    /\ get_record(2).state = ACTIVE
    /\ Len(events[2]) = 1

(***************************************************************************)
(* C29: revocation_reason goes with the state REVOKED                      *)
(***************************************************************************)
\* C29: a record has a revocation_reason exactly when its state is REVOKED.
\* issue creates the record without one; renew, suspend, reinstate and
\* check_expirations leave the revocation_reason of every record as it
\* was; a successful revoke sets it, to the reason given, in the step that
\* makes the state REVOKED.
C29_ReasonIffRevoked ==
    [][ /\ \A rid \in DOMAIN records' :
              (records'[rid].revocation_reason # None)
                  <=> (records'[rid].state = REVOKED)
        /\ \A rid \in DOMAIN records' \ DOMAIN records :
              records'[rid].revocation_reason = None
        /\ \A rid \in DOMAIN records :
              IF CallOn("revoke", rid) /\ lastCall'.outcome = "ok"
              THEN /\ records[rid].revocation_reason = None
                   /\ records'[rid].state = REVOKED
                   /\ records'[rid].revocation_reason \in Reasons
                   /\ records'[rid].revocation_reason
                         = Last(events'[rid]).details[1]
              ELSE records'[rid].revocation_reason
                         = records[rid].revocation_reason
      ]_vars

\* a record that was suspended has just been revoked with reason r2
C29_Witness ==
    /\ lastCall.op = "revoke"
    /\ lastCall.outcome = "ok"
    /\ \E rid \in DOMAIN records :
          /\ lastCall.record_id = rid
          /\ records[rid].state = REVOKED
          /\ records[rid].revocation_reason = "r2"
          /\ EventsOfType(rid, "suspended") # {}

(***************************************************************************)
(* C28: the order of get_events                                            *)
(***************************************************************************)
\* C28: get_events(record_id) returns the events of the record in the order
\* in which the transitions were applied to it, the 'issued' event first,
\* after any sequence of calls, check_expirations with an explicit
\* reference time included; and export_events_json lists them in that order.
C28_EventsInAppliedOrder ==
    \A rid \in DOMAIN records :
        /\ get_events(rid) = events[rid]
        /\ get_events(rid)[1].event_type = "issued"
        /\ export_events_json(rid)
              = [i \in 1..Len(events[rid]) |-> EventJson(events[rid][i])]

(***************************************************************************)
(* C27: teardown on every exit path after setup was called                 *)
(***************************************************************************)
\* C27: a run in which setup was called, a run in which setup itself raised
\* included, has called teardown exactly once when it returns or raises.
C27_TeardownAfterAnySetup ==
    (CallsOf(trace, "setup") # {} /\ pc \in {"done", "raised"}) =>
        Cardinality(CallsOf(trace, "teardown")) = 1

(***************************************************************************)
(* C21: what the scorer awards to the RunResult of a run                   *)
(***************************************************************************)
\* the five protocols were run, each has score 1 and a passed MUST check
PerfectRun(rr) ==
    /\ SeqToSet(rr.protocols_run) = SeqToSet(PerfectRunProtocols)
    /\ \A p \in SeqToSet(PerfectRunProtocols) :
          /\ p \in DOMAIN rr.protocol_results
          /\ ProtocolScore(rr.protocol_results[p]) = Ratio(1, 1)
          /\ HasPassedMust(rr.protocol_results[p])

\* C21: the RunResult of ConformanceRunner.run never has a result for asp
\* or alcp, so the scorer never awards it PLATINUM and lists asp and alcp as
\* missing for PLATINUM; the RunResult of a run of atp, aip, aeap, amgp and
\* aoap in which each has score 100% and a passed MUST check is awarded
\* exactly GOLD.
C21_RunNeverPlatinum ==
    (pc = "done" /\ cert.scored) =>
        /\ cert.run_result = run_out.result
        /\ {"asp", "alcp"} \cap DOMAIN cert.run_result.protocol_results = {}
        /\ cert.achieved_level # PLATINUM
        /\ ~cert.level_detail[PLATINUM].satisfied
        /\ PerfectRun(cert.run_result) => cert.achieved_level = GOLD

\* the five protocols were run against an adapter that left one SHOULD
\* operation unimplemented; every protocol has score 100% and the level is GOLD
C21_Witness ==
    /\ pc = "done"
    /\ cert.scored
    /\ request.ids = PerfectRunProtocols
    /\ PerfectRun(cert.run_result)
    /\ \E p \in DOMAIN cert.run_result.protocol_results :
          cert.run_result.protocol_results[p].skipped = 1
    /\ cert.achieved_level = GOLD
    /\ cert.score_pct = Ratio(100, 1)

(***************************************************************************)
(* C22: level_detail                                                       *)
(***************************************************************************)
\* the highest level whose entry of level_detail is satisfied, None if none
HighestSatisfiedEntry(c) ==
    IF c.level_detail[PLATINUM].satisfied THEN PLATINUM
    ELSE IF c.level_detail[GOLD].satisfied THEN GOLD
    ELSE IF c.level_detail[SILVER].satisfied THEN SILVER
    ELSE IF c.level_detail[BRONZE].satisfied THEN BRONZE
    ELSE None

\* C22: level_detail has an entry for each of the four levels whatever the
\* outcome; the 'satisfied' flag of an entry tells whether the level is
\* satisfied; its 'missing_protocols' is the whole required list when the
\* score is below the minimum of the level, else the required protocols
\* without a passed MUST check (the ones not run included); achieved_level
\* is the highest level whose entry is satisfied, None exactly when no entry is.
C22_LevelDetailConsistent ==
    cert.scored =>
        /\ DOMAIN cert.level_detail = {BRONZE, SILVER, GOLD, PLATINUM}
        /\ \A level \in DOMAIN cert.level_detail :
              /\ cert.level_detail[level].satisfied = Satisfies(cert, level)
              /\ cert.level_detail[level].missing_protocols
                    = MissingFor(cert, level)
              /\ cert.level_detail[level].required_protocols
                    = LEVEL_DEFINITIONS[level].required_protocols
        /\ cert.achieved_level = HighestSatisfiedEntry(cert)
        /\ (cert.achieved_level = None) <=>
              (\A level \in DOMAIN cert.level_detail :
                    ~cert.level_detail[level].satisfied)

\* atp, aeap and aoap passed and nothing else was run: the score reaches
\* the minimum of Gold, whose entry lists just aip and amgp as missing, and
\* the level is Silver
C22_Witness ==
    /\ cert.scored
    /\ cert.achieved_level = SILVER
    /\ cert.level_detail[GOLD].score_satisfies_threshold
    /\ ~cert.level_detail[GOLD].satisfied
    /\ cert.level_detail[GOLD].missing_protocols = <<"aip", "amgp">>
    /\ cert.level_detail[BRONZE].satisfied

(***************************************************************************)
(* C23: required_protocols_satisfied                                       *)
(***************************************************************************)
\* C23: required_protocols_satisfied is (missing_protocols is empty and
\* achieved_level is not None); so it is true exactly when a level was
\* achieved, and false for a result without a level whatever
\* missing_protocols is.
C23_RequiredProtocolsSatisfied ==
    cert.scored =>
        /\ cert.required_protocols_satisfied
              = (cert.missing_protocols = <<>> /\ cert.achieved_level # None)
        /\ cert.required_protocols_satisfied <=> (cert.achieved_level # None)
        /\ cert.achieved_level = None => ~cert.required_protocols_satisfied

\* a result with a level, and so with nothing missing and the flag set,
\* although the run has a failed protocol
C23_Witness ==
    /\ cert.scored
    /\ cert.achieved_level = BRONZE
    /\ cert.missing_protocols = <<>>
    /\ cert.required_protocols_satisfied
    /\ \E p \in DOMAIN cert.run_result.protocol_results :
          cert.run_result.protocol_results[p].failed > 0

(***************************************************************************)
(* C24: the arithmetic of the scores                                       *)
(***************************************************************************)
RECURSIVE SumOf(_, _)
SumOf(f, S) ==
    IF S = {} THEN 0
    ELSE LET x == CHOOSE y \in S : TRUE IN f[x] + SumOf(f, S \ {x})

\* the fraction r is n / d
IsFraction(r, n, d) == r.den > 0 /\ r.num * d = n * r.den

\* C24: skipped checks do not count and nothing is divided by zero.  The
\* total of a ProtocolResult is passed + failed + errors and its score is
\* passed / total, 0 when the total is 0; the overall_score of a RunResult
\* is the sum of passed over the sum of the totals of its protocol results,
\* 0 when it has none or when that sum is 0; overall_score_pct is
\* overall_score times 100, and it is the score_pct of the result of score.
C24_ScoreArithmetic ==
    LET results == run_result.protocol_results
        ran == [p \in DOMAIN results |->
                   results[p].passed + results[p].failed + results[p].errors]
        passed == [p \in DOMAIN results |-> results[p].passed]
        sum_ran == SumOf(ran, DOMAIN results)
        sum_passed == SumOf(passed, DOMAIN results)
    IN /\ \A p \in DOMAIN results :
             /\ Total(results[p]) = ran[p]
             /\ IF ran[p] > 0
                THEN IsFraction(ProtocolScore(results[p]), passed[p], ran[p])
                ELSE ProtocolScore(results[p]) = Zero
       /\ IF DOMAIN results = {} \/ sum_ran = 0
          THEN OverallScore(run_result) = Zero
          ELSE IsFraction(OverallScore(run_result), sum_passed, sum_ran)
       /\ IsFraction(OverallScorePct(run_result),
                     100 * OverallScore(run_result).num,
                     OverallScore(run_result).den)
       /\ cert.scored =>
             /\ cert.run_result = run_result
             /\ cert.score_pct = OverallScorePct(run_result)

\* a scored run in which every check of atp was skipped and the three
\* checks of aip passed: the skipped check does not count, the score is 100%
C24_Witness ==
    /\ cert.scored
    /\ DOMAIN run_result.protocol_results = {"atp", "aip"}
    /\ run_result.protocol_results["atp"].skipped = 1
    /\ Total(run_result.protocol_results["atp"]) = 0
    /\ ProtocolScore(run_result.protocol_results["atp"]) = Zero
    /\ run_result.protocol_results["aip"].passed = 3
    /\ cert.score_pct = Ratio(100, 1)

(***************************************************************************)
(* C30: the levels are nested                                              *)
(***************************************************************************)
\* the level below, None below Bronze
LevelBelow(level) ==
    CASE level = PLATINUM -> GOLD
      [] level = GOLD -> SILVER
      [] level = SILVER -> BRONZE
      [] level = BRONZE -> None

\* C30: the minimum scores of the levels rise strictly, 60 < 75 < 90 < 95,
\* and the required protocols of a level are required by the level above;
\* so in level_detail a satisfied level has every lower level satisfied,
\* and the level score awards has no satisfied level above it and no
\* unsatisfied level below it.
C30_LevelsDownwardClosed ==
    /\ LEVEL_DEFINITIONS[BRONZE].minimum_score_pct = 60
    /\ LEVEL_DEFINITIONS[SILVER].minimum_score_pct = 75
    /\ LEVEL_DEFINITIONS[GOLD].minimum_score_pct = 90
    /\ LEVEL_DEFINITIONS[PLATINUM].minimum_score_pct = 95
    /\ \A level \in CertificationLevel \ {BRONZE} :
          /\ LEVEL_DEFINITIONS[LevelBelow(level)].minimum_score_pct
                < LEVEL_DEFINITIONS[level].minimum_score_pct
          /\ SeqToSet(LEVEL_DEFINITIONS[LevelBelow(level)].required_protocols)
                \subseteq SeqToSet(LEVEL_DEFINITIONS[level].required_protocols)
    /\ cert.scored =>
          /\ \A level \in CertificationLevel \ {BRONZE} :
                cert.level_detail[level].satisfied =>
                    cert.level_detail[LevelBelow(level)].satisfied
          /\ \A level \in CertificationLevel :
                /\ LevelRank(level) > LevelRank(cert.achieved_level) =>
                      ~cert.level_detail[level].satisfied
                /\ LevelRank(level) <= LevelRank(cert.achieved_level) =>
                      cert.level_detail[level].satisfied

\* all seven protocols passed: every level is satisfied, Platinum is awarded
C30_Witness ==
    /\ cert.scored
    /\ cert.achieved_level = PLATINUM
    /\ \A level \in CertificationLevel : cert.level_detail[level].satisfied
    /\ "cross_protocol" \notin DOMAIN cert.run_result.protocol_results

====
